---- MODULE Spec2Model ----
(***************************************************************************)
(* Model of the bretzel-vscode extension (src/out/extension.js): the       *)
(* completion provider registered by activate() and the document it is     *)
(* asked about.  Strings are sequences of one-character strings, JSON      *)
(* values are tagged records, positions and string indices are 0-based as  *)
(* in the source.                                                          *)
(***************************************************************************)
EXTENDS Integers, Sequences, FiniteSets, TLC

VARIABLES lines, position, budget, source, activated, layouts,
          rootGlobalAttributes, result, effectiveGlobals,
          activeEditor, languageId, scheme, secondary,
          contentChanges, selectionActive, reopenRequests,
          changeStarts, pendingSuggests, logged, propagated, file

vars == <<lines, position, budget, source, activated, layouts,
          rootGlobalAttributes, result, effectiveGlobals,
          activeEditor, languageId, scheme, secondary,
          contentChanges, selectionActive, reopenRequests,
          changeStarts, pendingSuggests, logged, propagated, file>>

----------------------------------------------------------------------------
(* Bounds *)

\* number of insertions the author makes in the gate specification
MaxTyped == 3

\* number of insertions the author makes in the schema specification
MaxTypedSchema == 1

----------------------------------------------------------------------------
(* Characters and strings *)

NUL == "NUL"      \* the character U+0000
NL == "\n"
ELLIPSIS == "..." \* the character U+2026

Digits == {"0", "1", "2", "3", "4", "5", "6", "7", "8", "9"}

Letters ==
  {"a", "b", "c", "d", "e", "f", "g", "h", "i", "j", "k", "l", "m", "n",
   "o", "p", "q", "r", "s", "t", "u", "v", "w", "x", "y", "z",
   "A", "B", "C", "D", "E", "F", "G", "H", "I", "J", "K", "L", "M", "N",
   "O", "P", "Q", "R", "S", "T", "U", "V", "W", "X", "Y", "Z"}

\* the regular-expression class \w
IsWordChar(c) == c \in Letters \cup Digits \cup {"_"}

\* the regular-expression class [-\w]
IsTokenChar(c) == c = "-" \/ IsWordChar(c)

\* the regular-expression class ['"]
IsQuote(c) == c = "\"" \/ c = "'"

\* the regular-expression class \s (the members the model uses)
IsSpace(c) == c \in {" ", "\n", "\t", "\r"}

\* the characters of the model in code-unit order (UTF-16)
CodeOrder ==
  <<NUL, "\t", "\n", "\r", " ", "\"", "$", "'", ",", "-", ".", "0", "1",
    "2", "3", "4", "5", "6", "7", "8", "9", ":", "<", "=", ">", "A", "B", "C", "D", "E", "F",
    "G", "H", "I", "J", "K", "L", "M", "N", "O", "P", "Q", "R", "S", "T",
    "U", "V", "W", "X", "Y", "Z", "[", "]", "_", "a", "b", "c", "d", "e",
    "f", "g", "h", "i", "j", "k", "l", "m", "n", "o", "p", "q", "r", "s",
    "t", "u", "v", "w", "x", "y", "z", "{", "}", ELLIPSIS>>

Code(c) == CHOOSE i \in 1..Len(CodeOrder) : CodeOrder[i] = c

Min(S) == CHOOSE x \in S : \A y \in S : x <= y
Max(S) == CHOOSE x \in S : \A y \in S : x >= y

\* String.prototype.substring(from, to), 0-based, to exclusive
Substring(s, from, to) ==
  LET f == IF from < 0 THEN 0 ELSE IF from > Len(s) THEN Len(s) ELSE from
      t == IF to < 0 THEN 0 ELSE IF to > Len(s) THEN Len(s) ELSE to
  IN  IF f <= t THEN SubSeq(s, f + 1, t) ELSE SubSeq(s, t + 1, f)

\* String.prototype.substring(from)
SubstringFrom(s, from) == Substring(s, from, Len(s))

\* String.prototype.lastIndexOf(c) for a one-character c; -1 when absent
LastIndexOf(s, c) ==
  LET hits == {i \in 1..Len(s) : s[i] = c}
  IN  IF hits = {} THEN -1 ELSE Max(hits) - 1

\* String.prototype.charAt(i): the empty string when i is out of range
CharAt(s, i) == IF i >= 0 /\ i < Len(s) THEN s[i + 1] ELSE ""

\* (s.match(/c/g) || []).length
CountChar(s, c) == Cardinality({i \in 1..Len(s) : s[i] = c})

\* comparison of two strings by code units
LexLess(a, b) ==
  \E k \in 1..(Len(b)) :
     /\ k <= Len(a) + 1
     /\ \A j \in 1..(k - 1) : a[j] = b[j]
     /\ \/ k = Len(a) + 1
        \/ Code(a[k]) < Code(b[k])

----------------------------------------------------------------------------
(* The document and the cursor *)

Data == <<"d", "a", "t", "a">>

\* document.lineAt(n).text
LineText(n) == lines[n + 1]

\* document.lineAt(position.line).text.substring(0, position.character)
LinePrefix(ls, pos) == Substring(ls[pos.line + 1], 0, pos.character)

\* document.getText(new Range(new Position(0, 0), position))
RECURSIVE TextOfLines(_, _)
TextOfLines(ls, n) ==
  IF n = 0 THEN <<>> ELSE TextOfLines(ls, n - 1) \o ls[n] \o <<NL>>

DocTextBefore(ls, pos) == TextOfLines(ls, pos.line) \o LinePrefix(ls, pos)

----------------------------------------------------------------------------
(* The three gates of provideCompletionItems *)

\* \b at index i of s (0-based)
WordBoundary(s, i) ==
  LET left  == i > 0 /\ IsWordChar(s[i])
      right == i < Len(s) /\ IsWordChar(s[i + 1])
  IN  left # right

\* [-\w]*(?:['"])?$ applied to the rest of the line
TailMatches(t) ==
  \E q \in {0, 1} :
     /\ q <= Len(t)
     /\ q = 1 => IsQuote(t[Len(t)])
     /\ \A j \in 1..(Len(t) - q) : IsTokenChar(t[j])

\* MatchStarts without the (?:^|\b) anchor
MatchStartsNoBoundary(s) ==
  {i \in 0..(Len(s) - 4) :
     /\ Substring(s, i, i + 4) = Data
     /\ TailMatches(SubstringFrom(s, i + 4))}

\* the indices at which /(?:^|\b)(data[-\w]*)(?:['"])?$/ can start
MatchStarts(s) ==
  {i \in 0..(Len(s) - 4) :
     /\ i = 0 \/ WordBoundary(s, i)
     /\ Substring(s, i, i + 4) = Data
     /\ TailMatches(SubstringFrom(s, i + 4))}

NoMatch == [matched |-> FALSE]

\* linePrefix.match(/(?:^|\b)(data[-\w]*)(?:['"])?$/): the leftmost match,
\* group 1 is the token without the optional trailing quote
DataMatch(s) ==
  IF MatchStarts(s) = {} THEN NoMatch
  ELSE LET i == Min(MatchStarts(s))
           e == IF IsQuote(s[Len(s)]) THEN Len(s) - 1 ELSE Len(s)
       IN  [matched |-> TRUE, index |-> i, group1 |-> Substring(s, i, e)]

\* NotInsideTag that rejects any ">" before the cursor
NotInsideTagAnyClose(docTextBefore) ==
  LET lastOpen  == LastIndexOf(docTextBefore, "<")
      lastClose == LastIndexOf(docTextBefore, ">")
  IN  lastOpen = -1 \/ lastClose # -1

\* NotInsideTag without the comparison with the last ">"
NotInsideTagOpenOnly(docTextBefore) ==
  LastIndexOf(docTextBefore, "<") = -1

\* lastOpen === -1 || lastOpen < lastClose
NotInsideTag(docTextBefore) ==
  LET lastOpen  == LastIndexOf(docTextBefore, "<")
      lastClose == LastIndexOf(docTextBefore, ">")
  IN  lastOpen = -1 \/ lastOpen < lastClose

\* docTextBefore.substring(lastOpen)
Between(docTextBefore) ==
  SubstringFrom(docTextBefore, LastIndexOf(docTextBefore, "<"))

\* JustTypedQuote that knows the double quote only
JustTypedQuoteDoubleOnly(linePrefix) ==
  CharAt(linePrefix, Len(linePrefix) - 1) = "\""

JustTypedQuote(linePrefix) ==
  LET lastChar == CharAt(linePrefix, Len(linePrefix) - 1)
  IN  lastChar = "\"" \/ lastChar = "'"

\* InsideQuotes that counts the single quotes only
InsideQuotesSingleOnly(between, linePrefix) ==
  /\ CountChar(between, "'") % 2 = 1
  /\ ~JustTypedQuote(linePrefix)

\* InsideQuotes that wants both counts odd
InsideQuotesBothOdd(between, linePrefix) ==
  /\ CountChar(between, "'") % 2 = 1 /\ CountChar(between, "\"") % 2 = 1
  /\ ~JustTypedQuote(linePrefix)

InsideQuotes(between, linePrefix) ==
  LET singleQuotes == CountChar(between, "'")
      doubleQuotes == CountChar(between, "\"")
  IN  /\ singleQuotes % 2 = 1 \/ doubleQuotes % 2 = 1
      /\ ~JustTypedQuote(linePrefix)

\* ReplaceRange that starts one character late
ReplaceRangeOffByOne(pos, prefix) ==
  [start |-> [line |-> pos.line,
              character |-> pos.character - Len(prefix) + 1],
   end   |-> pos]

\* new Range(new Position(line, character - prefix.length), position)
ReplaceRange(pos, prefix) ==
  [start |-> [line |-> pos.line, character |-> pos.character - Len(prefix)],
   end   |-> pos]

----------------------------------------------------------------------------
(* JSON values as JSON.parse returns them, and the JavaScript operations   *)
(* the handler applies to them                                             *)

Undefined == [t |-> "undefined"]
JNull == [t |-> "null"]
JStr(s) == [t |-> "string", v |-> s]
JNum(n) == [t |-> "number", v |-> n]
JArr(a) == [t |-> "array", v |-> a]
JObj(o) == [t |-> "object", v |-> o]
JBool(b) == [t |-> "boolean", v |-> b]

\* o.f : undefined when o has no own property f
Get(o, f) == IF o.t = "object" /\ f \in DOMAIN o.v THEN o.v[f] ELSE Undefined

\* reading a property of null or undefined raises a TypeError
IsNullish(x) == x.t \in {"undefined", "null"}

\* ToBoolean
Truthy(x) ==
  CASE x.t = "string" -> x.v # <<>>
    [] x.t = "number" -> x.v # 0
    [] x.t = "boolean" -> x.v
    [] x.t \in {"array", "object"} -> TRUE
    [] OTHER -> FALSE

\* Array.isArray
IsArray(x) == x.t = "array"

\* a && typeof a === "object"
IsObjectLike(x) == Truthy(x) /\ x.t \in {"array", "object"}

\* { ...a, ...b }: the own properties of a, then those of b over them
Spread(a, b) ==
  LET fa == IF a.t = "object" THEN a.v ELSE <<>>
      fb == IF b.t = "object" THEN b.v ELSE <<>>
  IN  JObj([f \in (DOMAIN fa) \cup (DOMAIN fb) |->
              IF f \in DOMAIN fb THEN fb[f] ELSE fa[f]])

\* the decimal digits of a natural number
RECURSIVE DigitsOf(_)
DigitsOf(n) ==
  LET d == <<"0", "1", "2", "3", "4", "5", "6", "7", "8", "9">>[(n % 10) + 1]
  IN  IF n < 10 THEN <<d>> ELSE DigitsOf(n \div 10) \o <<d>>

\* String(x), also the conversion made by a template literal
RECURSIVE ToStr(_)
RECURSIVE JoinToStr(_, _)
ToStr(x) ==
  CASE x.t = "string" -> x.v
    [] x.t = "number" -> DigitsOf(x.v)
    [] x.t = "undefined" ->
         <<"u", "n", "d", "e", "f", "i", "n", "e", "d">>
    [] x.t = "null" -> <<"n", "u", "l", "l">>
    [] x.t = "boolean" ->
         IF x.v THEN <<"t", "r", "u", "e">> ELSE <<"f", "a", "l", "s", "e">>
    [] x.t = "object" ->
         <<"[", "o", "b", "j", "e", "c", "t", " ",
           "O", "b", "j", "e", "c", "t", "]">>
    [] x.t = "array" -> JoinToStr(x.v, Len(x.v))

\* Array.prototype.join(","): null and undefined elements give ""
JoinToStr(a, n) ==
  IF n = 0 THEN <<>>
  ELSE LET e == IF IsNullish(a[n]) THEN <<>> ELSE ToStr(a[n])
       IN  IF n = 1 THEN e ELSE JoinToStr(a, n - 1) \o <<",">> \o e

\* s.replace(/\s+/g, " "): every run of white space becomes one space
RECURSIVE CollapseSpaces(_)
CollapseSpaces(s) ==
  IF s = <<>> THEN <<>>
  ELSE IF IsSpace(Head(s))
       THEN IF Len(s) > 1 /\ IsSpace(s[2])
            THEN CollapseSpaces(Tail(s))
            ELSE <<" ">> \o CollapseSpaces(Tail(s))
       ELSE <<Head(s)>> \o CollapseSpaces(Tail(s))

\* String.prototype.trim
RECURSIVE Trim(_)
Trim(s) ==
  IF s = <<>> THEN <<>>
  ELSE IF IsSpace(Head(s)) THEN Trim(Tail(s))
  ELSE IF IsSpace(s[Len(s)]) THEN Trim(SubSeq(s, 1, Len(s) - 1))
  ELSE s

\* const sanitize = (s) => s.replace(/\s+/g, " ").trim()
sanitize(s) == Trim(CollapseSpaces(s))

\* sanitize(x) raises a TypeError unless x is a string
SanitizeThrows(x) == x.t # "string"

----------------------------------------------------------------------------
(* The effective global attributes of one layout: a Map, kept as the       *)
(* sequence of its entries in insertion order                              *)

\* Map keys are compared by value for primitives, by identity for objects;
\* two objects read from the schema are never the same object
SameKey(k1, k2) == k1 = k2 /\ k1.t \notin {"array", "object"}

\* Map.prototype.has
MapHas(m, k) == \E i \in 1..Len(m) : SameKey(m[i].key, k)

\* Map.prototype.get
MapGet(m, k) ==
  IF MapHas(m, k)
  THEN m[CHOOSE i \in 1..Len(m) : SameKey(m[i].key, k)].value
  ELSE Undefined

\* MapSet that adds an entry even when the key is present
MapSetAppend(m, k, v) == Append(m, [key |-> k, value |-> v])

\* Map.prototype.set: an existing key keeps its place
MapSet(m, k, v) ==
  IF MapHas(m, k)
  THEN [i \in 1..Len(m) |->
          IF SameKey(m[i].key, k) THEN [key |-> k, value |-> v] ELSE m[i]]
  ELSE Append(m, [key |-> k, value |-> v])

\* one turn of the loop over rootGlobalAttributes
RootStep(m, a) ==
  IF IsObjectLike(a) /\ Truthy(Get(a, "name"))
  THEN MapSet(m, Get(a, "name"), Spread(a, a))
  ELSE m

\* MergeOverride that drops the descriptor already in the map
MergeOverrideReplace(old, a) == Spread(a, a)

\* { ...effectiveGlobalsMap.get(a.name), ...a }
MergeOverride(old, a) == Spread(old, a)

\* one turn of the loop over perLayoutGlobalsCandidates
CandidateStep(m, a) ==
  IF IsObjectLike(a) /\ Truthy(Get(a, "name"))
  THEN IF MapHas(m, Get(a, "name"))
       THEN MapSet(m, Get(a, "name"),
                   MergeOverride(MapGet(m, Get(a, "name")), a))
       ELSE MapSet(m, Get(a, "name"), Spread(a, a))
  ELSE IF Truthy(a)
       THEN MapSet(m, JStr(ToStr(a)), JObj([name |-> JStr(ToStr(a))]))
       ELSE m

RECURSIVE RootLoop(_, _, _)
RootLoop(m, as, n) ==
  IF n = 0 THEN m ELSE RootStep(RootLoop(m, as, n - 1), as[n])

RECURSIVE CandidateLoop(_, _, _)
CandidateLoop(m, as, n) ==
  IF n = 0 THEN m ELSE CandidateStep(CandidateLoop(m, as, n - 1), as[n])

\* perLayoutGlobalsCandidates
PerLayoutGlobalsCandidates(l) ==
  (IF IsArray(Get(l, "globalAttributeDefaults"))
   THEN Get(l, "globalAttributeDefaults").v ELSE <<>>)
  \o
  (IF IsArray(Get(l, "globalAttributes"))
   THEN Get(l, "globalAttributes").v ELSE <<>>)

\* effectiveGlobalsMap for layout l
EffectiveGlobalsMap(root, l) ==
  LET m0 == IF IsArray(root) /\ Len(root.v) > 0
            THEN RootLoop(<<>>, root.v, Len(root.v))
            ELSE <<>>
      cs == PerLayoutGlobalsCandidates(l)
  IN  CandidateLoop(m0, cs, Len(cs))

----------------------------------------------------------------------------
(* The completion items *)

MAX_BASE_LEN == 120

DataLayoutEq == <<"d", "a", "t", "a", "-", "l", "a", "y", "o", "u", "t", "=">>

\* `data-layout="${l.name}"`
OriginalLabel(l) == DataLayoutEq \o <<"\"">> \o ToStr(Get(l, "name")) \o <<"\"">>

\* `data-layout="${"${1:" + l.name + "}"}"`
InsertText(l) ==
  DataLayoutEq \o <<"\"", "$", "{", "1", ":">> \o ToStr(Get(l, "name"))
               \o <<"}", "\"">>

\* SortText without the layout name
SortTextFixed(l) == <<NUL, "_">>

\* the index of the first "}" of s at or after index from that no backslash
\* escapes (1-based), 0 when there is none
ClosingBrace(s, from) ==
  LET cs == {c \in from..Len(s) : s[c] = "}" /\ s[c - 1] # "\\"}
  IN  IF cs = {} THEN 0 ELSE Min(cs)

\* the text a SnippetString inserts when every placeholder keeps its default:
\* "\" escapes "$", "}" and "\"; ${N:default} stands for its default, which
\* ends at the first "}"
RECURSIVE SnippetText(_)
SnippetText(s) ==
  IF s = <<>> THEN <<>>
  ELSE IF Len(s) >= 2 /\ s[1] = "\\" /\ s[2] \in {"$", "}", "\\"}
       THEN <<s[2]>> \o SnippetText(SubSeq(s, 3, Len(s)))
  ELSE IF /\ Len(s) >= 5
          /\ s[1] = "$" /\ s[2] = "{" /\ s[3] \in Digits /\ s[4] = ":"
          /\ ClosingBrace(s, 5) # 0
       THEN SnippetText(SubSeq(s, 5, ClosingBrace(s, 5) - 1))
              \o SnippetText(SubSeq(s, ClosingBrace(s, 5) + 1, Len(s)))
  ELSE <<s[1]>> \o SnippetText(Tail(s))

\* `\u0000_${l.name}`
SortText(l) == <<NUL, "_">> \o ToStr(Get(l, "name"))

\* sanitize(l.label), cut to MAX_BASE_LEN characters
BaseDetail(l) ==
  LET d == sanitize(Get(l, "label").v)
  IN  IF Len(d) > MAX_BASE_LEN
      THEN SubSeq(d, 1, MAX_BASE_LEN - 1) \o <<ELLIPSIS>>
      ELSE d

\* an attribute entry whose description reaches sanitize without being a string
DescriptionThrows(a) ==
  /\ IsObjectLike(a)
  /\ Truthy(Get(a, "description"))
  /\ SanitizeThrows(Get(a, "description"))

\* building the item of layout l raises a TypeError
ItemThrows(root, l) ==
  \/ IsNullish(l)
  \/ SanitizeThrows(Get(l, "label"))
  \/ Truthy(Get(l, "usage")) /\ SanitizeThrows(Get(l, "usage"))
  \/ /\ IsArray(Get(l, "attributes"))
     /\ \E i \in 1..Len(Get(l, "attributes").v) :
           DescriptionThrows(Get(l, "attributes").v[i])
  \/ /\ IsArray(Get(l, "properties"))
     /\ \E i \in 1..Len(Get(l, "properties").v) :
           DescriptionThrows(Get(l, "properties").v[i])
  \/ LET m == EffectiveGlobalsMap(root, l)
     IN  \E i \in 1..Len(m) : DescriptionThrows(m[i].value)

----------------------------------------------------------------------------
(* The documentation of an item: a Markdown text, kept as the sequence of   *)
(* its characters, each fixed piece of the template being one element      *)

HeadUsage == "**Usage:** "
HeadAttributes == "**Attributs HTML specifiques :**"
HeadProperties == "**Variables CSS specifiques :**"
HeadGlobals == "**Attributs HTML globaux :**"
Aucun == " aucun"
EMDASH == "--"                   \* the character U+2014
BACKTICK == "BT"                 \* the character U+0060
DefaultOpen == " (defaut : "

\* the keys of the descriptors of the model, in the order its schemas write
\* them, and their characters
FieldOrder ==
  <<"name", "value", "description", "valueDefault", "default", "defaultValue">>

FieldChars ==
  [name |-> <<"n", "a", "m", "e">>,
   value |-> <<"v", "a", "l", "u", "e">>,
   description |-> <<"d", "e", "s", "c", "r", "i", "p", "t", "i", "o", "n">>,
   valueDefault |-> <<"v", "a", "l", "u", "e", "D", "e", "f", "a", "u", "l", "t">>,
   default |-> <<"d", "e", "f", "a", "u", "l", "t">>,
   defaultValue |-> <<"d", "e", "f", "a", "u", "l", "t", "V", "a", "l", "u", "e">>]

\* a string between double quotes, as JSON.stringify escapes it
RECURSIVE Escaped(_)
Escaped(s) ==
  IF s = <<>> THEN <<>>
  ELSE (CASE Head(s) = "\"" -> <<"\\", "\"">>
          [] Head(s) = "\\" -> <<"\\", "\\">>
          [] Head(s) = "\n" -> <<"\\", "n">>
          [] Head(s) = "\t" -> <<"\\", "t">>
          [] Head(s) = "\r" -> <<"\\", "r">>
          [] OTHER -> <<Head(s)>>) \o Escaped(Tail(s))

\* JSON.stringify(x) for the values JSON.parse returns
RECURSIVE Stringify(_)
RECURSIVE StringifyItems(_, _)
RECURSIVE StringifyFields(_, _)
Stringify(x) ==
  CASE x.t = "string" -> <<"\"">> \o Escaped(x.v) \o <<"\"">>
    [] x.t = "array" -> <<"[">> \o StringifyItems(x.v, Len(x.v)) \o <<"]">>
    [] x.t = "object" ->
         <<"{">> \o StringifyFields(x, Len(FieldOrder)) \o <<"}">>
    [] OTHER -> ToStr(x)

StringifyItems(a, n) ==
  IF n = 0 THEN <<>>
  ELSE (IF n = 1 THEN <<>> ELSE StringifyItems(a, n - 1) \o <<",">>)
       \o Stringify(a[n])

StringifyFields(o, n) ==
  IF n = 0 THEN <<>>
  ELSE LET before == StringifyFields(o, n - 1)
           f      == FieldOrder[n]
       IN  IF f \in DOMAIN o.v
           THEN (IF before = <<>> THEN <<>> ELSE before \o <<",">>)
                \o <<"\"">> \o FieldChars[f] \o <<"\"", ":">>
                \o Stringify(o.v[f])
           ELSE before

\* a.name || JSON.stringify(a), as a template literal writes it
NameOrJson(a) ==
  IF Truthy(Get(a, "name")) THEN ToStr(Get(a, "name")) ELSE Stringify(a)

\* a.description || "", once through sanitize
SanitizedDescription(a) ==
  IF Truthy(Get(a, "description")) THEN sanitize(Get(a, "description").v)
  ELSE <<>>

\* desc ? `-- ${sanitize(desc)}` : ""
DashDescription(a) ==
  IF Truthy(Get(a, "description"))
  THEN <<EMDASH, " ">> \o SanitizedDescription(a)
  ELSE <<>>

\* a.valueDefault || a.default || a.defaultValue
DefaultOf(a) ==
  IF Truthy(Get(a, "valueDefault")) THEN Get(a, "valueDefault")
  ELSE IF Truthy(Get(a, "default")) THEN Get(a, "default")
  ELSE Get(a, "defaultValue")

\* `name="val"` between backticks
TickedPair(a) ==
  <<BACKTICK>> \o NameOrJson(a) \o <<"=", "\"">> \o ToStr(Get(a, "value"))
  \o <<"\"", BACKTICK>>

\* `name` between backticks
TickedName(a) == <<BACKTICK>> \o NameOrJson(a) \o <<BACKTICK>>

\* the line of one entry of l.attributes
AttributeLine(a) ==
  IF IsObjectLike(a)
  THEN IF Truthy(Get(a, "value"))
       THEN <<"-", " ">> \o TickedPair(a) \o <<" ", EMDASH, " ">>
            \o SanitizedDescription(a) \o <<NL>>
       ELSE <<"-", " ">> \o TickedName(a) \o <<" ">> \o DashDescription(a)
            \o <<NL>>
  ELSE <<"-", " ">> \o ToStr(a) \o <<NL>>

\* the line of one entry of l.properties
PropertyLine(p) ==
  IF IsObjectLike(p)
  THEN <<"-", " ">> \o TickedName(p) \o <<" ">> \o DashDescription(p)
       \o <<NL>>
  ELSE <<"-", " ">> \o ToStr(p) \o <<NL>>

\* the line of one descriptor of effectiveGlobalsMap
GlobalLine(a) ==
  LET def  == DefaultOf(a)
      tail == IF Truthy(def)
              THEN <<DefaultOpen>> \o ToStr(def) \o <<")">>
              ELSE <<>>
  IN  IF Truthy(Get(a, "value"))
      THEN <<"-", " ">> \o TickedPair(a) \o <<" ", EMDASH, " ">>
           \o SanitizedDescription(a) \o tail \o <<NL>>
      ELSE IF Truthy(def)
      THEN <<"-", " ">> \o TickedName(a) \o <<" ", EMDASH, " ">>
           \o SanitizedDescription(a) \o tail \o <<NL>>
      ELSE <<"-", " ">> \o TickedName(a) \o <<" ">> \o DashDescription(a)
           \o <<NL>>

\* the lines of the entries as[1..n], each made by AttributeLine
RECURSIVE AttributeLines(_, _)
AttributeLines(as, n) ==
  IF n = 0 THEN <<>>
  ELSE AttributeLines(as, n - 1) \o AttributeLine(as[n])

RECURSIVE PropertyLines(_, _)
PropertyLines(ps, n) ==
  IF n = 0 THEN <<>>
  ELSE PropertyLines(ps, n - 1) \o PropertyLine(ps[n])

RECURSIVE GlobalLines(_, _)
GlobalLines(m, n) ==
  IF n = 0 THEN <<>>
  ELSE GlobalLines(m, n - 1) \o GlobalLine(m[n].value)

\* if (l.usage) doc.appendMarkdown(`**Usage:** ${sanitize(l.usage)}\n\n`)
UsageSection(l) ==
  IF Truthy(Get(l, "usage"))
  THEN <<HeadUsage>> \o sanitize(Get(l, "usage").v) \o <<NL, NL>>
  ELSE <<>>

\* the section of l.attributes
AttributesSection(l) ==
  LET as == Get(l, "attributes")
  IN  IF IsArray(as)
      THEN IF Len(as.v) = 0
           THEN <<HeadAttributes, Aucun, NL, NL>>
           ELSE <<HeadAttributes, NL, NL>>
                \o AttributeLines(as.v, Len(as.v)) \o <<NL>>
      ELSE IF as.t = "string" /\ Truthy(as)
      THEN <<HeadAttributes, " ">> \o sanitize(as.v) \o <<NL, NL>>
      ELSE <<>>

\* the section of l.properties
PropertiesSection(l) ==
  LET ps == Get(l, "properties")
  IN  IF IsArray(ps)
      THEN IF Len(ps.v) = 0
           THEN <<HeadProperties, Aucun, NL, NL>>
           ELSE <<HeadProperties, NL, NL>>
                \o PropertyLines(ps.v, Len(ps.v)) \o <<NL>>
      ELSE <<>>

\* a globals section written only when the effective set has entries
GlobalsSectionIfAny(m) ==
  IF Len(m) = 0 THEN <<>>
  ELSE <<HeadGlobals, NL, NL>> \o GlobalLines(m, Len(m)) \o <<NL>>

\* the section of effectiveGlobalsMap
GlobalsSection(m) ==
  IF Len(m) = 0 THEN <<HeadGlobals, Aucun, NL, NL>>
  ELSE <<HeadGlobals, NL, NL>> \o GlobalLines(m, Len(m)) \o <<NL>>

\* item.documentation
Documentation(root, l) ==
  UsageSection(l) \o AttributesSection(l) \o PropertiesSection(l)
  \o GlobalsSection(EffectiveGlobalsMap(root, l))

\* the completion item built for layout l
Item(root, l, replaceRange) ==
  [label      |-> OriginalLabel(l),
   detail     |-> BaseDetail(l),
   documentation |-> Documentation(root, l),
   insertText |-> InsertText(l),
   range      |-> replaceRange,
   filterText |-> OriginalLabel(l),
   preselect  |-> TRUE,
   sortText   |-> SortText(l)]

----------------------------------------------------------------------------
(* The outcome of one provideCompletionItems call *)

Pending == [kind |-> "pending"]            \* no call since the last edit
ReturnsUndefined == [kind |-> "undefined"] \* return undefined
Thrown == [kind |-> "throws"]              \* a TypeError leaves the handler
ReturnsItems(items) == [kind |-> "items", items |-> items]

\* the indices at which /data-layout=(?:"|')?([\w-]+)(?:"|')?/u can start
LayoutInTagStarts(between) ==
  {i \in 0..(Len(between) - Len(DataLayoutEq) - 1) :
     /\ Substring(between, i, i + Len(DataLayoutEq)) = DataLayoutEq
     /\ LET c1 == CharAt(between, i + Len(DataLayoutEq))
            c2 == CharAt(between, i + Len(DataLayoutEq) + 1)
        IN  \/ c1 # "" /\ IsTokenChar(c1)
            \/ IsQuote(c1) /\ c2 # "" /\ IsTokenChar(c2)}

\* the longest run of [\w-] characters of s that starts at index from
RECURSIVE TokenRun(_, _)
TokenRun(s, from) ==
  IF from < Len(s) /\ IsTokenChar(s[from + 1])
  THEN <<s[from + 1]>> \o TokenRun(s, from + 1)
  ELSE <<>>

\* activeLayoutName: group 1 of the leftmost match, <<>> for undefined
ActiveLayoutName(between) ==
  IF LayoutInTagStarts(between) = {} THEN <<>>
  ELSE LET i == Min(LayoutInTagStarts(between)) + Len(DataLayoutEq)
       IN  IF IsQuote(CharAt(between, i))
           THEN TokenRun(between, i + 1)
           ELSE TokenRun(between, i)

\* activeLayout: the place in layouts of the first layout of that name, 0
\* for undefined
ActiveLayout(ly, activeLayoutName) ==
  LET hits == {i \in 1..Len(ly) : Get(ly[i], "name") = JStr(activeLayoutName)}
  IN  IF activeLayoutName = <<>> \/ hits = {} THEN 0 ELSE Min(hits)

\* OfferedLayouts that offers the active layout alone when there is one
OfferedLayoutsActiveOnly(ly, activeLayout) ==
  IF activeLayout = 0 THEN ly ELSE <<ly[activeLayout]>>

\* for (const l of layouts): every layout gets an item, the active layout
\* plays no part
OfferedLayouts(ly, activeLayout) == ly

\* provideCompletionItems(document, position)
ProvideResult(ls, pos, ly, root) ==
  LET linePrefix    == LinePrefix(ls, pos)
      dataMatch     == DataMatch(linePrefix)
      docTextBefore == DocTextBefore(ls, pos)
      between       == Between(docTextBefore)
      offered       ==
        OfferedLayouts(ly, ActiveLayout(ly, ActiveLayoutName(between)))
  IN  IF ~dataMatch.matched THEN ReturnsUndefined
      ELSE IF NotInsideTag(docTextBefore) THEN ReturnsUndefined
      ELSE IF InsideQuotes(between, linePrefix) THEN ReturnsUndefined
      ELSE IF \E i \in 1..Len(ly) : ItemThrows(root, ly[i]) THEN Thrown
      ELSE ReturnsItems(
             [i \in 1..Len(offered) |->
                Item(root, offered[i],
                     ReplaceRange(pos, dataMatch.group1))])

\* the effectiveGlobalsMap built for each layout during the call
ProvideGlobals(ls, pos, ly, root) ==
  IF ProvideResult(ls, pos, ly, root).kind = "items"
  THEN [i \in 1..Len(ly) |-> EffectiveGlobalsMap(root, ly[i])]
  ELSE <<>>

----------------------------------------------------------------------------
(* Documents, insertions and schemas of the model *)

Pos(l, c) == [line |-> l, character |-> c]

DocEmpty == [lines |-> << <<>> >>, position |-> Pos(0, 0)]

DocSection ==
  [lines |-> << <<"<", "s", "e", "c", "t", "i", "o", "n", " ">> >>, position |-> Pos(0, 9)]

DocClassValue ==
  [lines |-> << <<"<", "s", "e", "c", "t", "i", "o", "n", " ", "c", "l", "a", "s", "s", "=", "\"", "d", "a", "t", "a", "-">> >>,
   position |-> Pos(0, 21)]

DocLayoutEq ==
  [lines |-> << <<"<", "d", "i", "v", " ", "d", "a", "t", "a", "-", "l", "a", "y", "o", "u", "t", "=">> >>, position |-> Pos(0, 17)]

\* an open single-quoted value on the line above the cursor
DocTwoLines ==
  [lines |-> << <<"<", "a", " ", "t", "i", "t", "l", "e", "=", "'", "x">>, <<>> >>, position |-> Pos(1, 0)]

\* the cursor stands inside the tag, text follows it on the line
DocMidLine ==
  [lines |-> << <<"<", "s", "e", "c", "t", "i", "o", "n", " ", " ", "c", "l", "a", "s", "s", "=", "\"", "x", "\"", ">">> >>, position |-> Pos(0, 9)]

\* a tag that already names a layout of the schema
DocActiveDuo ==
  [lines |-> << <<"<", "d", "i", "v", " ", "d", "a", "t", "a", "-", "l", "a", "y", "o", "u", "t", "=", "\"", "d", "u", "o", "\"", " ">> >>,
   position |-> Pos(0, 23)]

\* a tag that names a layout the schema does not have, without quotes
DocActiveUnknown ==
  [lines |-> << <<"<", "d", "i", "v", " ", "d", "a", "t", "a", "-", "l", "a", "y", "o", "u", "t", "=", "z", "z", " ">> >>,
   position |-> Pos(0, 20)]

DocHeads ==
  {DocEmpty, DocSection, DocClassValue, DocLayoutEq, DocTwoLines, DocMidLine,
   DocActiveDuo, DocActiveUnknown}

DocDataL ==
  [lines |-> << <<"<", "s", "e", "c", "t", "i", "o", "n", " ", "d", "a", "t", "a", "-", "l">> >>, position |-> Pos(0, 15)]

DocDataOnly ==
  [lines |-> << <<"<", "s", "e", "c", "t", "i", "o", "n", " ", "d", "a", "t", "a">> >>, position |-> Pos(0, 13)]

SchemaDocHeads == {DocDataL, DocDataOnly}

\* the texts the author inserts at the cursor
Fragments == {Data, <<"-">>, <<"l">>, <<"\"">>, <<"'">>, <<"<">>, <<">">>, <<"_">>}

sDuo == <<"d", "u", "o">>
sBoxed == <<"b", "o", "x", "e", "d">>
sDuos == <<"d", "u", "o", "s">>
sDataGap == <<"d", "a", "t", "a", "-", "g", "a", "p">>
sDataPad == <<"d", "a", "t", "a", "-", "p", "a", "d">>
s1rem == <<"1", "r", "e", "m">>
s2rem == <<"2", "r", "e", "m">>
s05rem == <<"0", ".", "5", "r", "e", "m">>

Layout(name, label) == JObj([name |-> JStr(name), label |-> JStr(label)])

LayoutDuo == Layout(sDuo, <<"D", "u", "o", " ", " ", "l", "a", "y", "o", "u", "t">>)
LayoutBoxed == Layout(sBoxed, <<"B", "o", "x", "e", "d">>)
\* a layout whose name holds a closing brace
LayoutBrace == Layout(<<"d", "u", "}", "o">>, <<"B", "r", "a", "c", "e">>)
LayoutDuos == Layout(sDuos, <<"D", "u", "o", "s">>)

\* all sequences over S of length at most n
SeqsUpTo(S, n) == UNION {[1..k -> S] : k \in 0..n}

\* schemas of the gate specification: no layout, and two layouts whose
\* names are not in alphabetical order
GateSchemas ==
  {[layouts |-> <<>>, rootGlobalAttributes |-> Undefined],
   [layouts |-> <<LayoutDuo, LayoutBoxed>>, rootGlobalAttributes |-> Undefined]}

\* number of layouts of a schema in the order specification
MaxLayouts == 2

\* the names of a schema are unique
OrderSchemas ==
  {[layouts |-> ly, rootGlobalAttributes |-> Undefined] :
     ly \in {q \in SeqsUpTo({LayoutDuo, LayoutBoxed, LayoutDuos, LayoutBrace},
                               MaxLayouts) :
               \A i, j \in 1..Len(q) : q[i] = q[j] => i = j}}

\* attribute entries of the merge specification
GapValue == JObj([name |-> JStr(sDataGap), value |-> JStr(s1rem)])
GapDefault == JObj([name |-> JStr(sDataGap), defaultValue |-> JStr(s05rem)])
GapValue2 == JObj([name |-> JStr(sDataGap), value |-> JStr(s2rem)])
GapFull ==
  JObj([name |-> JStr(sDataGap), value |-> JStr(s1rem),
        description |-> JStr(<<"g", "a", "p">>)])
PadValue == JObj([name |-> JStr(sDataPad), value |-> JStr(s1rem)])
NoName == JObj([value |-> JStr(s1rem)])
RawGap == JStr(sDataGap)

OverridePool == {GapDefault, GapValue2, PadValue, NoName, RawGap, JNull}

Roots == {Undefined, JArr(<<GapValue>>), JArr(<<GapFull, PadValue>>)}

\* number of per-layout override entries of a layout
MaxOverrides == 2

\* a layout with the two per-layout sequences (left out when empty)
LayoutNamed(name, d, g) ==
  LET fs == {"name", "label"}
              \cup (IF d # <<>> THEN {"globalAttributeDefaults"} ELSE {})
              \cup (IF g # <<>> THEN {"globalAttributes"} ELSE {})
  IN  JObj([f \in fs |->
              CASE f = "name" -> JStr(name)
                [] f = "label" -> JStr(name)
                [] f = "globalAttributeDefaults" -> JArr(d)
                [] f = "globalAttributes" -> JArr(g)])

\* layout "duo" with the per-layout sequences d and g
LayoutWith(d, g) == LayoutNamed(sDuo, d, g)

\* layout "duos", which carries the entries of d and g in both sequences
LayoutTwice(d, g) == LayoutNamed(sDuos, d \o g, d \o g)

MergeSchemas ==
  {[layouts |-> <<LayoutWith(d, g), LayoutBoxed, LayoutTwice(d, g)>>,
    rootGlobalAttributes |-> r] :
     r \in Roots,
     d \in SeqsUpTo(OverridePool, MaxOverrides),
     g \in SeqsUpTo(OverridePool, MaxOverrides)}

\* number of entries of a sequence in the documentation specification
MaxDocEntries == 2

\* a text of two lines
sMulti == <<"a", "\n", " ", "b">>
sDataRow == <<"d", "a", "t", "a", "-", "r", "o", "w">>

\* attribute entries of the documentation specification: descriptors, a
\* descriptor without name, raw strings, a number and null
PadDescribed == JObj([name |-> JStr(sDataPad), description |-> JStr(sMulti)])
RawMulti == JStr(sMulti)
RawRow == JStr(sDataRow)

DocEntryPool == {GapValue, PadDescribed, NoName, RawGap, RawMulti, JNum(7), JNull}

DocOverridePool == {GapDefault, RawGap, RawMulti, JNull, JArr(<<>>)}

DocRoots ==
  {Undefined, JArr(<<>>), JArr(<<GapFull>>), JArr(<<RawRow, GapValue>>),
   JArr(<<GapFull, PadValue>>)}

\* layout "duo" with the optional fields that are not undefined
LayoutDoc(u, as, ps, gs) ==
  LET given == [usage |-> u, attributes |-> as, properties |-> ps,
                globalAttributeDefaults |-> gs]
      fs == {"name", "label"}
              \cup {f \in DOMAIN given : given[f].t # "undefined"}
  IN  JObj([f \in fs |->
              IF f \in {"name", "label"} THEN JStr(sDuo) ELSE given[f]])

\* schemas of the documentation specification: every attributes sequence
\* with and without usage, every properties sequence with attributes absent,
\* empty or a string, and every override sequence over every root
DocSchemas ==
  {[layouts |-> <<LayoutDoc(u, JArr(as), Undefined, Undefined), LayoutBoxed>>,
    rootGlobalAttributes |-> Undefined] :
     u \in {Undefined, JStr(<<>>), JStr(sMulti)},
     as \in SeqsUpTo(DocEntryPool, MaxDocEntries)}
  \cup
  {[layouts |-> <<LayoutDoc(Undefined, a, JArr(ps), Undefined), LayoutBoxed>>,
    rootGlobalAttributes |-> Undefined] :
     a \in {Undefined, JArr(<<>>), JStr(sMulti)},
     ps \in SeqsUpTo(DocEntryPool, MaxDocEntries)}
  \cup
  {[layouts |-> <<LayoutDoc(JStr(sMulti), JArr(<<GapValue>>),
                            JArr(<<PadDescribed>>), JArr(gs)), LayoutBoxed>>,
    rootGlobalAttributes |-> r] :
     r \in DocRoots,
     gs \in SeqsUpTo(DocOverridePool, MaxDocEntries)}

----------------------------------------------------------------------------
(* loadLayouts: what data/layouts.json holds, and what the loader makes of *)
(* it                                                                      *)

Unreadable == [kind |-> "unreadable"]    \* fs.readFileSync raises
Unparseable == [kind |-> "unparseable"]  \* JSON.parse raises
Parsed(v) == [kind |-> "json", v |-> v]  \* JSON.parse returns v

Raised == [kind |-> "raised"]
Returned(ly, root) ==
  [kind |-> "returned", layouts |-> ly, rootGlobalAttributes |-> root]

\* LoadParsed that does not know the bare-array format
LoadParsedNoLegacy(parsed) ==
  IF IsObjectLike(parsed)
  THEN Returned(IF IsArray(Get(parsed, "layouts"))
                THEN Get(parsed, "layouts").v ELSE <<>>,
                IF IsArray(Get(parsed, "globalAttributes"))
                THEN Get(parsed, "globalAttributes") ELSE Undefined)
  ELSE Returned(<<>>, Undefined)

\* LoadParsed that gives up the global attributes when layouts is no array
LoadParsedCoupled(parsed) ==
  IF IsArray(parsed) THEN Returned(parsed.v, Undefined)
  ELSE IF IsObjectLike(parsed) /\ IsArray(Get(parsed, "layouts"))
  THEN Returned(Get(parsed, "layouts").v,
                IF IsArray(Get(parsed, "globalAttributes"))
                THEN Get(parsed, "globalAttributes") ELSE Undefined)
  ELSE Returned(<<>>, Undefined)

\* the shape-sniffing of the parsed value
LoadParsed(parsed) ==
  IF IsArray(parsed) THEN Returned(parsed.v, Undefined)
  ELSE IF IsObjectLike(parsed)
  THEN Returned(IF IsArray(Get(parsed, "layouts"))
                THEN Get(parsed, "layouts").v ELSE <<>>,
                IF IsArray(Get(parsed, "globalAttributes"))
                THEN Get(parsed, "globalAttributes") ELSE Undefined)
  ELSE Returned(<<>>, Undefined)

\* the body of the try block
LoadLayoutsBody(src) ==
  IF src.kind = "json" THEN LoadParsed(src.v) ELSE Raised

\* loadLayouts without the catch clause
LoadLayoutsNoCatch(src) == LoadLayoutsBody(src)

\* loadLayouts(extensionPath)
LoadLayouts(src) ==
  IF LoadLayoutsBody(src) = Raised
  THEN Returned(<<>>, Undefined)
  ELSE LoadLayoutsBody(src)

\* the file that holds the schema sc
SourceOf(sc) ==
  Parsed(JObj([f \in {"layouts"}
                     \cup (IF sc.rootGlobalAttributes.t = "undefined"
                           THEN {} ELSE {"globalAttributes"}) |->
                 IF f = "layouts" THEN JArr(sc.layouts)
                 ELSE sc.rootGlobalAttributes]))

\* number of entries of a bare-array source in the loader specification
MaxLoadLayouts == 2

\* a layout entry without label
LayoutNoLabel == JObj([name |-> JStr(sDuo)])

LoadSources ==
  {Unreadable, Unparseable,
   Parsed(JNull), Parsed(JStr(sDuo)), Parsed(JNum(7)), Parsed(JBool(TRUE))}
  \cup {Parsed(JArr(q)) :
          q \in SeqsUpTo({LayoutDuo, LayoutBoxed, LayoutNoLabel, JNull},
                         MaxLoadLayouts)}
  \cup {Parsed(JObj([f \in fs |->
                       IF f = "layouts" THEN vl ELSE vg])) :
          fs \in SUBSET {"layouts", "globalAttributes"},
          vl \in {JArr(<<>>), JArr(<<LayoutDuo, LayoutBoxed>>), JStr(sDuo),
                  JNull, LayoutDuo},
          vg \in {JArr(<<>>), JArr(<<GapValue>>), JStr(sDataGap), JNull,
                  GapValue}}

----------------------------------------------------------------------------
(* The document selector of the provider and the change listener           *)

\* the languages of the document selector the provider is registered with
SelectorLanguages ==
  {"html", "vue", "markdown", "php", "twig", "blade", "handlebars",
   "mustache", "ejs", "pug", "liquid", "javascriptreact", "typescriptreact",
   "typescript"}

\* the host consults the provider for a document of this language and scheme
SelectorMatches(lang, sch) == lang \in SelectorLanguages /\ sch = "file"

\* the languages the change listener goes on for
ListenerLanguages ==
  {"html", "vue", "markdown", "php", "twig", "blade", "handlebars",
   "mustache", "ejs", "pug", "liquid", "javascriptreact", "typescriptreact",
   "typescript"}

\* vscode.window.activeTextEditor: the editor of the document that changed,
\* the editor of another document, or undefined
Editors == {"document", "other", "none"}

\* the listener gets past its early returns
ListenerGoesOn(editor, lang) ==
  editor = "document" /\ lang \in ListenerLanguages

\* a listener that reacts to quotes only
TriggerTextQuotesOnly(text) == text \in {<<"\"">>, <<"'">>}

\* ch.text === "-" || ch.text === '"' || ch.text === "'"
TriggerText(text) == text \in {<<"-">>, <<"\"">>, <<"'">>}

\* DataDashAtEnd that tests the hyphen only: /-$/
DataDashAtEndHyphenOnly(linePrefix) ==
  /\ Len(linePrefix) >= 1
  /\ linePrefix[Len(linePrefix)] = "-"

\* /\bdata-$/.test(linePrefix)
DataDashAtEnd(linePrefix) ==
  /\ Len(linePrefix) >= Len(Data) + 1
  /\ SubstringFrom(linePrefix, Len(linePrefix) - Len(Data) - 1)
       = Data \o <<"-">>
  /\ WordBoundary(linePrefix, Len(linePrefix) - Len(Data) - 1)

\* the executeCommand("editor.action.triggerSuggest") calls of the loop over
\* e.contentChanges: every iteration reads the same selection and line
TriggerSuggestCalls(changes, linePrefix) ==
  IF DataDashAtEnd(linePrefix)
  THEN Cardinality({i \in 1..Len(changes) : TriggerText(changes[i])})
  ELSE 0

\* no secondary cursor, no selection read
NoCursor == [none |-> TRUE]

\* the console lines of the listener and of the callbacks of its requests
LogDetected == "detected data- ; triggering suggest"
LogSucceeded == "triggerSuggest succeeded"
LogFailed == "triggerSuggest failed"
LogListenerError == "changeListener error"

\* one run of the listener: the selection it read, the requests it issued,
\* the lines it logged, and whether an error left it
Ran(sel, requests, lg, out) ==
  [selection |-> sel, requests |-> requests, logged |-> lg,
   propagated |-> out]

\* the listener goes on and some change carries a hyphen or a quote
ReachesHost(editor, lang, changes) ==
  /\ ListenerGoesOn(editor, lang)
  /\ \E i \in 1..Len(changes) : TriggerText(changes[i])

\* the runs in which no host call raises: the selection is one of cursors
NormalRuns(changes, ls, cursors) ==
  {Ran(pos, TriggerSuggestCalls(changes, LinePrefix(ls, pos)),
       [i \in 1..TriggerSuggestCalls(changes, LinePrefix(ls, pos)) |->
          LogDetected],
       FALSE) : pos \in cursors}

\* the listener without its try/catch: an error of a host call leaves it
ChangeListenerNoCatch(editor, lang, changes, ls, cursors) ==
  IF ~ReachesHost(editor, lang, changes)
  THEN {Ran(NoCursor, 0, <<>>, FALSE)}
  ELSE NormalRuns(changes, ls, cursors)
       \cup {Ran(NoCursor, 0, <<>>, TRUE)}

\* the listener, for the changes of one notification, the document after
\* them and the cursors the host may report: a host call (selection,
\* lineAt, executeCommand) that raises ends the run in the catch clause
ChangeListener(editor, lang, changes, ls, cursors) ==
  IF ~ReachesHost(editor, lang, changes)
  THEN {Ran(NoCursor, 0, <<>>, FALSE)}
  ELSE NormalRuns(changes, ls, cursors)
       \cup {Ran(NoCursor, 0, <<LogListenerError>>, FALSE)}

\* the start of the document, where other parties insert
DocStart == [line |-> 0, character |-> 0]

\* the texts another party inserts at the start of the document
ElsewhereFragments == {<<"-">>}

\* the content the schema file is given after activation
RewrittenFile ==
  [kind |-> "json",
   v |-> [t |-> "array",
          v |-> << [t |-> "object",
                    v |-> [name |-> [t |-> "string", v |-> <<"n", "e", "w">>],
                           label |-> [t |-> "string", v |-> <<"N", "e", "w">>]]] >>]]

\* the document after text is inserted at position pos
InsertAt(ls, pos, text) ==
  [ls EXCEPT ![pos.line + 1] =
     Substring(@, 0, pos.character) \o text \o SubstringFrom(@, pos.character)]

\* cursor q stands before cursor p on the line of p
Before(q, p) ==
  q # NoCursor /\ q.line = p.line /\ q.character < p.character

\* the document after text is inserted at cursor p and at cursor q, if any
InsertAtCursors(ls, p, q, text) ==
  IF q = NoCursor THEN InsertAt(ls, p, text)
  ELSE IF Before(q, p) THEN InsertAt(InsertAt(ls, p, text), q, text)
  ELSE InsertAt(InsertAt(ls, q, text), p, text)

\* where cursor p stands after text is inserted at p and at cursor q, if any
Shifted(p, q, text) ==
  [p EXCEPT !.character =
     @ + Len(text) + (IF Before(q, p) THEN Len(text) ELSE 0)]

\* where cursor p stands after text is inserted at another place
Pushed(p, at, text) ==
  IF Before(at, p) THEN [p EXCEPT !.character = @ + Len(text)] ELSE p

\* the editors, documents and cursors the host may present
Host(editor, lang, sch, second) ==
  [activeEditor |-> editor, languageId |-> lang, scheme |-> sch,
   secondary |-> second]

\* an html file in the active editor, one cursor
FileHosts == {Host("document", "html", "file", NoCursor)}

----------------------------------------------------------------------------
(* Initial states: the state after activate() has loaded the schema and    *)
(* registered the provider, with a document open in the editor             *)

InitHosted(docs, sources, typed, hosts) ==
  /\ \E d \in docs : lines = d.lines /\ position = d.position
  /\ \E h \in hosts :
        /\ activeEditor = h.activeEditor
        /\ languageId = h.languageId
        /\ scheme = h.scheme
        /\ secondary = h.secondary
  /\ contentChanges = <<>>
  /\ changeStarts = <<>>
  /\ selectionActive = NoCursor
  /\ reopenRequests = 0
  /\ pendingSuggests = 0
  /\ logged = <<>>
  /\ propagated = FALSE
  /\ source \in sources
  /\ file = source
  /\ activated = (LoadLayouts(source).kind = "returned")
  /\ layouts = IF activated THEN LoadLayouts(source).layouts ELSE <<>>
  /\ rootGlobalAttributes =
       IF activated THEN LoadLayouts(source).rootGlobalAttributes
       ELSE Undefined
  /\ budget = typed
  /\ result = Pending
  /\ effectiveGlobals = <<>>

InitWith(docs, sources, typed) == InitHosted(docs, sources, typed, FileHosts)

Init == InitWith(DocHeads, {SourceOf(sc) : sc \in GateSchemas}, MaxTyped)

InitOrder ==
  InitWith(SchemaDocHeads, {SourceOf(sc) : sc \in OrderSchemas},
           MaxTypedSchema)

InitMerge ==
  InitWith(SchemaDocHeads,
           {SourceOf(sc) : sc \in
              {m \in MergeSchemas :
                 Len(PerLayoutGlobalsCandidates(m.layouts[1])) <= MaxOverrides}},
           MaxTypedSchema)

InitLoad == InitWith(SchemaDocHeads, LoadSources, MaxTypedSchema)

InitDoc ==
  InitWith(SchemaDocHeads, {SourceOf(sc) : sc \in DocSchemas}, MaxTypedSchema)

\* insertions in the specification of the change listener
MaxTypedWatch == 2

\* two lines ending with data, the cursor at the end of the first
DocWatch ==
  [lines |-> << <<"<", "s", "e", "c", "t", "i", "o", "n", " ", "d", "a", "t", "a">>,
                <<"<", "d", "i", "v", " ", "d", "a", "t", "a">> >>,
   position |-> Pos(0, 13)]

\* the same with data inside a longer word on the first line
DocWatchInWord ==
  [lines |-> << <<"<", "s", "e", "c", "t", "i", "o", "n", " ", "x", "d", "a", "t", "a">>,
                <<"<", "d", "i", "v", " ", "d", "a", "t", "a">> >>,
   position |-> Pos(0, 14)]

WatchDocHeads == {DocWatch, DocWatchInWord}

\* every editor, three languages (one of them not listed), two schemes, and
\* a second cursor at the end of the second line or none
WatchHosts ==
  {Host(e, l, sch, c) :
     e \in Editors, l \in {"html", "typescript", "css"},
     sch \in {"file", "untitled"}, c \in {NoCursor, Pos(1, 9)}}

InitWatch ==
  InitHosted(WatchDocHeads, {SourceOf(sc) : sc \in GateSchemas},
             MaxTypedWatch, WatchHosts)

----------------------------------------------------------------------------
(* Actions *)

\* the notification of an edit reaches the change listener: cursors are the
\* positions the host may report as editor.selection.active
Notify(cursors) ==
  \E run \in ChangeListener(activeEditor, languageId, contentChanges',
                            lines', cursors) :
     /\ selectionActive' = run.selection
     /\ reopenRequests' = run.requests
     /\ pendingSuggests' = pendingSuggests + run.requests
     /\ logged' = run.logged
     /\ propagated' = run.propagated

\* the author inserts text at every cursor: one content change per cursor,
\* delivered to the change listener in one notification. The selection the
\* listener finds is the cursor before or after the edit, as the host has it.
InsertAtCursor(text) ==
  /\ budget > 0
  /\ lines' = InsertAtCursors(lines, position, secondary, text)
  /\ position' = Shifted(position, secondary, text)
  /\ secondary' = IF secondary = NoCursor THEN NoCursor
                  ELSE Shifted(secondary, position, text)
  /\ contentChanges' = IF secondary = NoCursor THEN <<text>>
                       ELSE <<text, text>>
  /\ changeStarts' = IF secondary = NoCursor THEN <<position>>
                     ELSE <<position, secondary>>
  /\ Notify({position, position'})
  /\ budget' = budget - 1
  /\ result' = Pending
  /\ effectiveGlobals' = <<>>
  /\ UNCHANGED <<source, activated, layouts, rootGlobalAttributes,
                 activeEditor, languageId, scheme, file>>

\* another party (a second editor of the document, an extension) inserts
\* text at the start of the document, away from the cursor: one content
\* change, the cursors of line 0 move along
InsertElsewhere(text) ==
  /\ budget > 0
  /\ position # DocStart
  /\ secondary # DocStart
  /\ lines' = InsertAt(lines, DocStart, text)
  /\ position' = Pushed(position, DocStart, text)
  /\ secondary' = IF secondary = NoCursor THEN NoCursor
                  ELSE Pushed(secondary, DocStart, text)
  /\ contentChanges' = <<text>>
  /\ changeStarts' = <<DocStart>>
  /\ Notify({position, position'})
  /\ budget' = budget - 1
  /\ result' = Pending
  /\ effectiveGlobals' = <<>>
  /\ UNCHANGED <<source, activated, layouts, rootGlobalAttributes,
                 activeEditor, languageId, scheme, file>>

\* a provider that writes the text of its first suggestion at the cursor
ProvideCompletionItemsInserting ==
  /\ activated
  /\ SelectorMatches(languageId, scheme)
  /\ result' = ProvideResult(lines, position, layouts, rootGlobalAttributes)
  /\ effectiveGlobals' =
       ProvideGlobals(lines, position, layouts, rootGlobalAttributes)
  /\ lines' = IF result'.kind = "items" /\ Len(result'.items) > 0
              THEN InsertAt(lines, position, result'.items[1].filterText)
              ELSE lines
  /\ UNCHANGED <<position, budget, source, activated, layouts,
                 rootGlobalAttributes, activeEditor, languageId, scheme,
                 secondary, contentChanges, selectionActive, reopenRequests,
                 changeStarts, pendingSuggests, logged, propagated, file>>

\* a provider that reads the schema file again at every call
ProvideCompletionItemsReloading ==
  /\ activated
  /\ SelectorMatches(languageId, scheme)
  /\ layouts' = LoadLayouts(file).layouts
  /\ rootGlobalAttributes' = LoadLayouts(file).rootGlobalAttributes
  /\ result' = ProvideResult(lines, position, layouts', rootGlobalAttributes')
  /\ effectiveGlobals' =
       ProvideGlobals(lines, position, layouts', rootGlobalAttributes')
  /\ UNCHANGED <<lines, position, budget, source, activated, activeEditor,
                 languageId, scheme, secondary, contentChanges,
                 selectionActive, reopenRequests, changeStarts,
                 pendingSuggests, logged, propagated, file>>

\* the host asks the provider for completions at the cursor
ProvideCompletionItems ==
  /\ activated
  /\ SelectorMatches(languageId, scheme)
  /\ result' = ProvideResult(lines, position, layouts, rootGlobalAttributes)
  /\ effectiveGlobals' =
       ProvideGlobals(lines, position, layouts, rootGlobalAttributes)
  /\ UNCHANGED <<lines, position, budget, source, activated, layouts,
                 rootGlobalAttributes, activeEditor, languageId, scheme,
                 secondary, contentChanges, selectionActive, reopenRequests,
                 changeStarts, pendingSuggests, logged, propagated, file>>

\* what the callbacks of a request leave alone
CallbackFrame ==
  UNCHANGED <<lines, position, budget, source, activated, layouts,
              rootGlobalAttributes, result, effectiveGlobals, activeEditor,
              languageId, scheme, secondary, contentChanges, selectionActive,
              reopenRequests, changeStarts, propagated, file>>

\* the host fulfils a reopen request: the first callback of then()
TriggerSuggestSucceeded ==
  /\ pendingSuggests > 0
  /\ pendingSuggests' = pendingSuggests - 1
  /\ logged' = Append(logged, LogSucceeded)
  /\ CallbackFrame

\* the host rejects a reopen request: the second callback of then()
TriggerSuggestFailed ==
  /\ pendingSuggests > 0
  /\ pendingSuggests' = pendingSuggests - 1
  /\ logged' = Append(logged, LogFailed)
  /\ CallbackFrame

\* the schema file is rewritten on disk after activation
RewriteSchemaFile ==
  /\ budget > 0
  /\ file # RewrittenFile
  /\ file' = RewrittenFile
  /\ budget' = budget - 1
  /\ UNCHANGED <<lines, position, source, activated, layouts,
                 rootGlobalAttributes, result, effectiveGlobals, activeEditor,
                 languageId, scheme, secondary, contentChanges,
                 selectionActive, reopenRequests, changeStarts,
                 pendingSuggests, logged, propagated>>

Next ==
  \/ \E text \in Fragments : InsertAtCursor(text)
  \/ \E text \in ElsewhereFragments : InsertElsewhere(text)
  \/ ProvideCompletionItems
  \/ TriggerSuggestSucceeded
  \/ TriggerSuggestFailed
  \/ RewriteSchemaFile

Spec == Init /\ [][Next]_vars

SpecOrder == InitOrder /\ [][Next]_vars

SpecMerge == InitMerge /\ [][Next]_vars

SpecLoad == InitLoad /\ [][Next]_vars

SpecWatch == InitWatch /\ [][Next]_vars

SpecDoc == InitDoc /\ [][Next]_vars

----------------------------------------------------------------------------
(* Vocabulary of the properties *)

CurLinePrefix == LinePrefix(lines, position)

CurDocBefore == DocTextBefore(lines, position)

Called == result # Pending

ReturnsNone == result.kind = "undefined"

HasItems == result.kind = "items" /\ Len(result.items) > 0

\* the text of the document covered by a range on one line
SpanText(r) ==
  Substring(lines[r.start.line + 1], r.start.character, r.end.character)

\* the schema has the shape of the data model: every layout is an object
\* with a string name and label, an optional usage text, and descriptors
\* whose description, when present, is a string
TypedDescriptors(x) ==
  IsArray(x) =>
    \A i \in 1..Len(x.v) :
       x.v[i].t = "object" =>
         Get(x.v[i], "description").t \in {"undefined", "string"}

TypedSchema ==
  /\ TypedDescriptors(rootGlobalAttributes)
  /\ \A i \in 1..Len(layouts) :
        /\ layouts[i].t = "object"
        /\ Get(layouts[i], "name").t = "string"
        /\ Get(layouts[i], "label").t = "string"
        /\ Get(layouts[i], "usage").t \in {"undefined", "string"}
        /\ \A f \in {"attributes", "properties", "globalAttributeDefaults",
                     "globalAttributes"} :
              TypedDescriptors(Get(layouts[i], f))

\* s without one trailing quote character, when it has one
SetQuoteAside(s) ==
  IF s # <<>> /\ IsQuote(s[Len(s)]) THEN SubSeq(s, 1, Len(s) - 1) ELSE s

\* the lengths k of the tokens that end s: the last k characters start with
\* "data", continue with characters taken from class, and begin at the
\* start of s or right after a non-word character
TokenLengths(s, class) ==
  {k \in 4..Len(s) :
     /\ SubSeq(s, Len(s) - k + 1, Len(s) - k + 4) = Data
     /\ \A j \in (Len(s) - k + 5)..Len(s) : s[j] \in class
     /\ k = Len(s) \/ ~IsWordChar(s[Len(s) - k])}

StrictClass == Letters \cup Digits \cup {"-"}

WordClass == Letters \cup Digits \cup {"-", "_"}

\* the 1-based places of c in s
Places(s, c) == {i \in 1..Len(s) : s[i] = c}

\* the last "<" before the cursor lies after every ">"
InsideOpenTag ==
  /\ Places(CurDocBefore, "<") # {}
  /\ \A j \in Places(CurDocBefore, ">") : j < Max(Places(CurDocBefore, "<"))

\* the text from the last "<" to the cursor
SinceLastOpen ==
  SubSeq(CurDocBefore, Max(Places(CurDocBefore, "<")), Len(CurDocBefore))

OddQuotes ==
  \/ Cardinality(Places(SinceLastOpen, "'")) % 2 = 1
  \/ Cardinality(Places(SinceLastOpen, "\"")) % 2 = 1

\* the character immediately before the cursor is a quote
QuoteBeforeCursor ==
  CurDocBefore # <<>> /\ IsQuote(CurDocBefore[Len(CurDocBefore)])

----------------------------------------------------------------------------
(* Replacement span: C1, C2 *)

\* C1: whenever a non-empty list is returned, the text covered by the
\* replacement span of every suggestion is exactly the matched prefix (the
\* token starting with "data"), also when one trailing quote follows it.
ClaimC1 ==
  HasItems =>
    \A i \in 1..Len(result.items) :
       SpanText(result.items[i].range) = DataMatch(CurLinePrefix).group1

----------------------------------------------------------------------------
(* Quote-parity gate: C3, C4, C5 *)

LineClassDataLQuoted == <<"<", "s", "e", "c", "t", "i", "o", "n", " ", "c", "l", "a", "s", "s", "=", "\"", "d", "a", "t", "a", "-", "l", "\"">>

LineClassDataL == <<"<", "s", "e", "c", "t", "i", "o", "n", " ", "c", "l", "a", "s", "s", "=", "\"", "d", "a", "t", "a", "-", "l">>

\* C3 as stated: with the line text <section class="data-l" and the cursor
\* at its end, no suggestion is returned.
ClaimC3 ==
  (/\ Called
   /\ lines = <<LineClassDataLQuoted>>
   /\ position = Pos(0, Len(LineClassDataLQuoted)))
  => ~HasItems

\* C3 amended: with the line text <section class="data-l and the cursor at
\* its end (the class value is still open: the double-quote count is odd and
\* the last character is not a quote), none is returned.
ThmC3 ==
  (/\ Called
   /\ lines = <<LineClassDataL>>
   /\ position = Pos(0, Len(LineClassDataL)))
  => ReturnsNone

WitC3 ==
  /\ lines = <<LineClassDataL>>
  /\ position = Pos(0, Len(LineClassDataL))
  /\ Len(layouts) > 0
  /\ ReturnsNone

\* C4: whenever the number of single quotes or the number of double quotes
\* between the last "<" before the cursor and the cursor is odd, and the
\* character immediately before the cursor is not a quote, none is returned.
ThmC4 ==
  (/\ Called
   /\ Places(CurDocBefore, "<") # {}
   /\ OddQuotes
   /\ ~QuoteBeforeCursor)
  => ReturnsNone

\* the quote gate alone decides: the prefix gate and the tag gate pass, only
\* one of the two quote counts is odd
WitC4 ==
  /\ ReturnsNone
  /\ TokenLengths(CurLinePrefix, WordClass) # {}
  /\ InsideOpenTag
  /\ Cardinality(Places(SinceLastOpen, "'")) % 2 = 1
  /\ Cardinality(Places(SinceLastOpen, "\"")) % 2 = 0
  /\ ~QuoteBeforeCursor
  /\ Len(layouts) > 0

\* s ends with t
EndsWith(s, t) ==
  Len(s) >= Len(t) /\ SubSeq(s, Len(s) - Len(t) + 1, Len(s)) = t

\* one suggestion per layout of the schema
OnePerLayout == result.kind = "items" /\ Len(result.items) = Len(layouts)

\* C5 as stated: inside an open tag, with the text before the cursor ending
\* with data-layout=" (quote just typed), one suggestion per layout of a
\* non-empty schema is offered.
ClaimC5 ==
  (/\ Called
   /\ InsideOpenTag
   /\ EndsWith(CurLinePrefix, DataLayoutEq \o <<"\"">>)
   /\ TypedSchema
   /\ Len(layouts) > 0)
  => OnePerLayout

\* C5 amended: inside an open tag, with the line ending with a data-prefixed
\* token that starts at a word boundary and is immediately followed by the
\* quote just typed (data-" for instance), one suggestion per layout is
\* offered, whatever the quote counts; with data-layout=" before the cursor
\* none is returned.
ThmC5 ==
  /\ (/\ Called
      /\ InsideOpenTag
      /\ QuoteBeforeCursor
      /\ CurLinePrefix # <<>>
      /\ TokenLengths(SetQuoteAside(CurLinePrefix), WordClass) # {}
      /\ TypedSchema)
     => OnePerLayout
  /\ (Called /\ EndsWith(CurLinePrefix, DataLayoutEq \o <<"\"">>))
     => ReturnsNone

\* the exception applies: data-" just typed, odd number of double quotes
WitC5 ==
  /\ HasItems
  /\ EndsWith(CurLinePrefix, Data \o <<"-", "\"">>)
  /\ Cardinality(Places(SinceLastOpen, "\"")) % 2 = 1

----------------------------------------------------------------------------
(* Tag-boundary gate and prefix gate: C6, C7, C8 *)

LineSectionDataL == <<"<", "s", "e", "c", "t", "i", "o", "n", " ", "d", "a", "t", "a", "-", "l">>

\* C6: when the text before the cursor ends with a data-prefixed token, the
\* last "<" comes after the last ">" and both quote counts since that "<"
\* are even, a non-empty list is returned for a non-empty schema.
ThmC6 ==
  (/\ Called
   /\ TokenLengths(CurLinePrefix, WordClass) # {}
   /\ InsideOpenTag
   /\ ~OddQuotes
   /\ TypedSchema
   /\ Len(layouts) > 0)
  => HasItems

WitC6 ==
  /\ lines = <<LineSectionDataL>>
  /\ position = Pos(0, Len(LineSectionDataL))
  /\ HasItems

\* C7: none is returned whenever the text before the cursor has no "<" or
\* its last "<" occurs before its last ">"; suggestions are produced only
\* when the last "<" lies after every ">".
ThmC7 ==
  /\ (Called /\ ~InsideOpenTag) => ReturnsNone
  /\ result.kind = "items" => InsideOpenTag

\* the tag gate alone decides: the prefix gate passes, no quote is open,
\* the tag before the cursor is closed
WitC7 ==
  /\ ReturnsNone
  /\ TokenLengths(CurLinePrefix, WordClass) # {}
  /\ Places(CurDocBefore, "<") # {}
  /\ ~InsideOpenTag
  /\ ~OddQuotes
  /\ Len(layouts) > 0

\* the length of the replaced prefix, read from the replacement spans
PrefixLengthIs(k) ==
  \A i \in 1..Len(result.items) :
     result.items[i].range.end.character
       - result.items[i].range.start.character = k

\* C8 as stated: suggestions are returned only if the line text before the
\* cursor, one trailing quote set aside, ends with a token that starts at a
\* word boundary or at the start of the line, begins with "data" and
\* continues with letters, digits and hyphens only; that token is the prefix.
ClaimC8 ==
  LET ks == TokenLengths(SetQuoteAside(CurLinePrefix), StrictClass)
  IN  /\ result.kind = "items" => \E k \in ks : PrefixLengthIs(k)
      /\ (Called /\ ks = {}) => ReturnsNone

\* C8 amended: the token continues with ASCII letters, digits, underscores
\* and hyphens; the prefix is the longest such token.
ThmC8 ==
  LET ks == TokenLengths(SetQuoteAside(CurLinePrefix), WordClass)
  IN  /\ result.kind = "items" => ks # {} /\ PrefixLengthIs(Max(ks))
      /\ (Called /\ ks = {}) => ReturnsNone

\* suggestions for a prefix that contains an underscore, and for a line on
\* which two tokens qualify
WitC8 ==
  /\ HasItems
  /\ "_" \in {CurLinePrefix[i] : i \in 1..Len(CurLinePrefix)}
  /\ Cardinality(TokenLengths(SetQuoteAside(CurLinePrefix), WordClass)) > 1

----------------------------------------------------------------------------
(* Ranking: C9 *)

\* the name of the i-th layout as it is written into label and sort key
NameOf(i) == ToStr(Get(layouts[i], "name"))

\* C9 as stated: under lexical comparison, the sort keys of one request
\* order the suggestions as the layouts appear in the schema, for every
\* schema.
ClaimC9 ==
  result.kind = "items" =>
    \A i, j \in 1..Len(result.items) :
       i < j => LexLess(result.items[i].sortText, result.items[j].sortText)

\* C9 amended: every sort key is U+0000, "_" and the layout name, so under
\* lexical comparison the keys order the suggestions by layout name: the
\* key of one layout precedes the key of another exactly when its name
\* precedes the other name.
ThmC9 ==
  result.kind = "items" =>
    \A i, j \in 1..Len(result.items) :
       /\ SubSeq(result.items[i].sortText, 1, 2) = <<NUL, "_">>
       /\ LexLess(result.items[i].sortText, result.items[j].sortText)
            <=> LexLess(NameOf(i), NameOf(j))

\* a schema whose names are not in alphabetical order: the keys put the
\* second layout first
WitC9 ==
  /\ result.kind = "items"
  /\ Len(result.items) = 2
  /\ LexLess(NameOf(2), NameOf(1))
  /\ LexLess(result.items[2].sortText, result.items[1].sortText)

----------------------------------------------------------------------------
(* Effective global attributes: C10 *)

\* entry a is a descriptor object named n
Named(a, n) == a.t = "object" /\ Truthy(Get(a, "name")) /\ Get(a, "name") = n

\* entry a is not a descriptor, and its raw string form is n
RawNamed(a, n) ==
  /\ Truthy(a)
  /\ ~(IsObjectLike(a) /\ Truthy(Get(a, "name")))
  /\ JStr(ToStr(a)) = n

\* the places of the entries of the sequence as that carry the name n
Carriers(as, n) ==
  {i \in 1..Len(as) : Named(as[i], n) \/ RawNamed(as[i], n)}

RootEntries == IF IsArray(rootGlobalAttributes) THEN rootGlobalAttributes.v ELSE <<>>

AttributeNames == {JStr(sDataGap), JStr(sDataPad)}

\* the fields of override o laid over the fields of root descriptor r
FieldMerge(r, o) ==
  [f \in (DOMAIN r.v) \cup (DOMAIN o.v) |->
     IF f \in DOMAIN o.v THEN o.v[f] ELSE r.v[f]]

\* C10: the effective global set of a layout is a field-level merge keyed by
\* name: where the root and the layout each carry one descriptor of a name,
\* the set has exactly one entry of that name, with the fields of the
\* override and the other fields of the root descriptor.
ThmC10 ==
  result.kind = "items" =>
    \A li \in 1..Len(layouts) : \A n \in AttributeNames :
       LET cs == PerLayoutGlobalsCandidates(layouts[li])
           rp == Carriers(RootEntries, n)
           cp == Carriers(cs, n)
           m  == effectiveGlobals[li]
       IN  (/\ Cardinality(rp) = 1
            /\ Cardinality(cp) = 1
            /\ \A i \in rp : Named(RootEntries[i], n)
            /\ \A i \in cp : Named(cs[i], n))
           =>
           /\ Cardinality({k \in 1..Len(m) : m[k].key = n}) = 1
           /\ \A k \in 1..Len(m) : \A i \in rp : \A j \in cp :
                 m[k].key = n =>
                   m[k].value.v = FieldMerge(RootEntries[i], cs[j])

\* the example: root [{name: data-gap, value: 1rem}], override
\* [{name: data-gap, defaultValue: 0.5rem}] give the single entry data-gap
\* with value 1rem and defaultValue 0.5rem
WitC10 ==
  /\ result.kind = "items"
  /\ rootGlobalAttributes = JArr(<<GapValue>>)
  /\ Get(layouts[1], "globalAttributeDefaults") = JArr(<<GapDefault>>)
  /\ effectiveGlobals[1] =
       <<[key   |-> JStr(sDataGap),
          value |-> JObj([name |-> JStr(sDataGap), value |-> JStr(s1rem),
                          defaultValue |-> JStr(s05rem)])]>>

----------------------------------------------------------------------------
(* Idempotence of the merge: C11 *)

CandidatesOf(li) == PerLayoutGlobalsCandidates(layouts[li])

\* every override entry of layout li equals a descriptor of the set base
OverridesEqualBase(li, base) ==
  /\ CandidatesOf(li) # <<>>
  /\ \A c \in 1..Len(CandidatesOf(li)) :
        \E k \in 1..Len(base) : base[k].value = CandidatesOf(li)[c]

\* C11: the merge is idempotent: a layout whose overrides equal the base
\* descriptors has the base (the set of a layout without overrides) as its
\* effective set, and a layout that carries an override sequence twice has
\* the same effective set as a layout that carries it once.
ThmC11 ==
  result.kind = "items" =>
    \A li, lj \in 1..Len(layouts) :
       /\ (CandidatesOf(lj) = <<>> /\ OverridesEqualBase(li, effectiveGlobals[lj]))
            => effectiveGlobals[li] = effectiveGlobals[lj]
       /\ CandidatesOf(lj) = CandidatesOf(li) \o CandidatesOf(li)
            => effectiveGlobals[lj] = effectiveGlobals[li]

\* root [gap, pad] and the override pad, which equals the base descriptor:
\* carried once (layout 1) and twice (layout 3) it leaves the base (layout 2)
WitC11 ==
  /\ result.kind = "items"
  /\ rootGlobalAttributes = JArr(<<GapFull, PadValue>>)
  /\ CandidatesOf(1) = <<PadValue>>
  /\ CandidatesOf(2) = <<>>
  /\ CandidatesOf(3) = <<PadValue, PadValue>>
  /\ Len(effectiveGlobals[2]) = 2
  /\ effectiveGlobals[1] = effectiveGlobals[2]
  /\ effectiveGlobals[3] = effectiveGlobals[1]

----------------------------------------------------------------------------
(* Label, filter text and inserted text: C12 *)

\* C12: for every produced suggestion, the visible label, the filter text
\* and the text the snippet inserts with its placeholder filled by its
\* default are the same string data-layout="<name>" for the layout's name.
ClaimC12 ==
  result.kind = "items" =>
    \A i \in 1..Len(result.items) :
       LET canonical == DataLayoutEq \o <<"\"">> \o NameOf(i) \o <<"\"">>
       IN  /\ result.items[i].label = canonical
           /\ result.items[i].filterText = canonical
           /\ SnippetText(result.items[i].insertText) = canonical

----------------------------------------------------------------------------
(* All layouts are always offered: C13 *)

\* the three gates pass: a data-prefixed token (one trailing quote set
\* aside) ends the line, the cursor is inside an open tag, and no quote is
\* open unless a quote was just typed
GatesOpen ==
  /\ CurLinePrefix # <<>>
  /\ TokenLengths(SetQuoteAside(CurLinePrefix), WordClass) # {}
  /\ InsideOpenTag
  /\ ~OddQuotes \/ QuoteBeforeCursor

\* the layout name written after data-layout= in the current tag, if any
NamedInTag(name) ==
  \E q \in {<<>>, <<"\"">>, <<"'">>} : \E i \in 1..Len(SinceLastOpen) :
     /\ i + Len(DataLayoutEq \o q \o name) - 1 <= Len(SinceLastOpen)
     /\ SubSeq(SinceLastOpen, i, i + Len(DataLayoutEq \o q \o name) - 1)
          = DataLayoutEq \o q \o name
     /\ ~IsTokenChar(CharAt(SinceLastOpen,
                            i + Len(DataLayoutEq \o q \o name) - 1))

----------------------------------------------------------------------------
\* the schema source is missing, unparseable, or parses to a value that is
\* neither a sequence nor a keyed structure
NoSchemaSource ==
  \/ source.kind # "json"
  \/ source.v.t \notin {"array", "object"}

\* the field f of a keyed source when it is a sequence, else the empty one
FieldOrEmpty(f) ==
  IF IsArray(Get(source.v, f)) THEN Get(source.v, f).v ELSE <<>>

\* C14: for a source that cannot be read or parsed, or that parses to
\* neither a sequence nor a keyed structure, the loader returns (activation
\* goes on) a schema with no layouts and no root global attributes, and
\* every later provideCompletionItems call yields no suggestion and no error
ThmC14 ==
  NoSchemaSource =>
    /\ activated
    /\ layouts = <<>>
    /\ RootEntries = <<>>
    /\ Called => result.kind \in {"undefined", "items"} /\ ~HasItems

WitC14 ==
  /\ source = Unparseable
  /\ GatesOpen
  /\ result = ReturnsItems(<<>>)

\* C15: a source that parses to a bare sequence is returned unchanged as
\* the layouts, with no root global attributes
ThmC15 ==
  (source.kind = "json" /\ source.v.t = "array") =>
    /\ activated
    /\ layouts = source.v.v
    /\ RootEntries = <<>>

WitC15 ==
  /\ source = Parsed(JArr(<<LayoutDuo, LayoutBoxed>>))
  /\ layouts = <<LayoutDuo, LayoutBoxed>>
  /\ HasItems
  /\ Len(result.items) = 2

\* C16: for a source that parses to a keyed structure, layouts is its
\* layouts field when that is a sequence and empty otherwise, the root
\* global attributes are its globalAttributes field when that is a sequence
\* and absent otherwise, each whatever the other field is
ThmC16 ==
  (source.kind = "json" /\ source.v.t = "object") =>
    /\ activated
    /\ layouts = FieldOrEmpty("layouts")
    /\ RootEntries = FieldOrEmpty("globalAttributes")
    /\ ~IsArray(Get(source.v, "globalAttributes")) =>
          rootGlobalAttributes = Undefined

WitC16 ==
  /\ source = Parsed(JObj([layouts |-> JStr(sDuo),
                          globalAttributes |-> JArr(<<GapValue>>)]))
  /\ layouts = <<>>
  /\ RootEntries = <<GapValue>>
  /\ Called

\* C17: whatever schema the loader returned, layout entries and descriptors
\* unvalidated, a provideCompletionItems call does not raise: its outcome
\* is a list of suggestions or none
ClaimC17 == Called => result.kind \in {"undefined", "items"}

----------------------------------------------------------------------------
\* the last notification carried one change, the insertion of a hyphen
SingleHyphen == contentChanges = << <<"-">> >>

\* the notification is for the document of the active editor, of a
\* recognised content type
Listening == activeEditor = "document" /\ languageId \in ListenerLanguages

\* the line text up to the cursor the listener found
WatchedPrefix == LinePrefix(lines, selectionActive)

\* s ends with exactly data- and the d starts a word
EndsWithDataDash(s) ==
  /\ EndsWith(s, Data \o <<"-">>)
  /\ Len(s) > Len(Data) + 1 => ~IsWordChar(s[Len(s) - Len(Data) - 1])

\* a host call raised during the last run of the listener
ListenerCaught == Len(logged) > 0 /\ logged[1] = LogListenerError

ClaimC19 == reopenRequests <= 1

\* C20: a reopen request is issued only for a document the provider is
\* registered for, and a document outside that set gets neither
\* suggestions nor reopen requests
ClaimC20 ==
  /\ reopenRequests > 0 => SelectorMatches(languageId, scheme)
  /\ ~SelectorMatches(languageId, scheme) => ~Called /\ reopenRequests = 0

----------------------------------------------------------------------------
\* the step is the delivery of an edit notification
NotificationStep == lines' # lines

\* the step is a callback of a reopen request
CallbackStep == pendingSuggests' < pendingSuggests

\* what a step does about failures
StepC21 ==
  /\ ~propagated'
  /\ CallbackStep =>
        /\ pendingSuggests' = pendingSuggests - 1
        /\ \/ logged' = Append(logged, LogSucceeded)
           \/ logged' = Append(logged, LogFailed)
        /\ UNCHANGED <<lines, position, secondary, result, reopenRequests,
                       contentChanges, selectionActive, layouts,
                       rootGlobalAttributes>>
  /\ (NotificationStep /\ ListenerCaught') =>
        /\ logged' = <<LogListenerError>>
        /\ reopenRequests' = 0
        /\ pendingSuggests' = pendingSuggests
  /\ (NotificationStep /\ ~ListenerCaught') =>
        /\ pendingSuggests' = pendingSuggests + reopenRequests'
        /\ reopenRequests' =
             IF ReachesHost(activeEditor, languageId, contentChanges')
             THEN TriggerSuggestCalls(contentChanges', LinePrefix(lines', selectionActive'))
             ELSE 0

\* C21: a rejected reopen request and an error raised while an edit
\* notification is handled are only logged: nothing leaves the listener,
\* no request is issued again, and every later notification is handled as
\* if nothing had failed
ThmC21 == [][StepC21]_vars

WitC21 ==
  /\ Len(logged) = 2
  /\ logged[1] = LogDetected
  /\ logged[2] = LogFailed
  /\ pendingSuggests = 0
  /\ reopenRequests = 1
  /\ ~propagated

----------------------------------------------------------------------------
\* the schema loadLayouts made of the file as it was at activation
LoadedAtActivation == LoadLayouts(source)

\* C22: the schema in use is the one loaded at activation, every layout and
\* descriptor included, whatever calls and notifications came since and
\* whatever the schema file holds by now; the suggestions of a call are
\* those of that schema
ThmC22 ==
  /\ layouts = LoadedAtActivation.layouts
  /\ rootGlobalAttributes = LoadedAtActivation.rootGlobalAttributes
  /\ Called =>
        result = ProvideResult(lines, position, LoadedAtActivation.layouts,
                               LoadedAtActivation.rootGlobalAttributes)

WitC22 ==
  /\ file = RewrittenFile
  /\ source # file
  /\ contentChanges # <<>>
  /\ HasItems
  /\ Len(result.items) = 2

----------------------------------------------------------------------------
\* the document ls after the insertions of one notification
ApplyChanges(ls, starts, texts) ==
  IF Len(texts) = 1 THEN InsertAt(ls, starts[1], texts[1])
  ELSE InsertAtCursors(ls, starts[1], starts[2], texts[1])

\* a step changes the document only by the insertions of the author or of
\* another party, exactly as the notification reports them; the steps of the
\* provider and of the callbacks change the outcome, the requests and the
\* console only
StepC23 ==
  /\ lines' # lines =>
        /\ budget' = budget - 1
        /\ Len(contentChanges') \in {1, 2}
        /\ lines' = ApplyChanges(lines, changeStarts', contentChanges')
        /\ result' = Pending
  /\ (result' # result /\ result' # Pending) => lines' = lines
  /\ pendingSuggests' < pendingSuggests => lines' = lines

----------------------------------------------------------------------------
\* the other change of a notification of two
OtherStart(i) ==
  IF Len(changeStarts) = 2 THEN changeStarts[3 - i] ELSE NoCursor

\* where the inserted text of change i ends in the document as it is now
EditEnd(i) == Shifted(changeStarts[i], OtherStart(i), contentChanges[i])

\* where it starts
EditStart(i) ==
  [EditEnd(i) EXCEPT !.character = @ - Len(contentChanges[i])]

\* the line text up to the edit, the inserted text left out or taken in,
\* ends with data-
DataDashAtEdit(i) ==
  \/ EndsWithDataDash(LinePrefix(lines, EditStart(i)))
  \/ EndsWithDataDash(LinePrefix(lines, EditEnd(i)))

\* C24: a reopen request is issued for an inserted hyphen or quote only
\* when the line text up to the position of that edit ends with data-; an
\* insertion made away from the cursor causes none
ClaimC24 ==
  reopenRequests > 0 =>
    \A i \in 1..Len(contentChanges) :
       TriggerText(contentChanges[i]) => DataDashAtEdit(i)

----------------------------------------------------------------------------
(* The documentation of the suggestions: C25 *)

\* the text sub stands somewhere in the text s
Contains(s, sub) ==
  \E i \in 1..(Len(s) - Len(sub) + 1) : SubSeq(s, i, i + Len(sub) - 1) = sub

\* an entry that is no descriptor object and has a raw string form of its own
RawEntry(a) == a.t \in {"string", "number"} /\ Truthy(a)

\* a descriptor object with a name
WellFormed(a) ==
  a.t = "object" /\ Get(a, "name").t = "string" /\ Truthy(Get(a, "name"))

\* the field f of layout li when it is a sequence, else the empty one
SequenceOf(li, f) ==
  IF IsArray(Get(layouts[li], f)) THEN Get(layouts[li], f).v ELSE <<>>

\* the attribute-like sequences behind the suggestion of layout li
AttributeLikes(li) ==
  <<SequenceOf(li, "attributes"), SequenceOf(li, "properties"),
    CandidatesOf(li), RootEntries>>

\* C25: in the documentation of every suggestion, every entry of the
\* layout's attributes, properties and overrides and of the root global
\* attributes that is not a descriptor object stands as its raw string
\* form, and the well-formed entries of the same sequence stand by name
ClaimC25 ==
  result.kind = "items" =>
    \A li \in 1..Len(result.items) : \A q \in 1..4 :
       \A i \in 1..Len(AttributeLikes(li)[q]) :
          LET a == AttributeLikes(li)[q][i]
              doc == result.items[li].documentation
          IN  /\ RawEntry(a) => Contains(doc, ToStr(a))
              /\ WellFormed(a) => Contains(doc, Get(a, "name").v)

----------------------------------------------------------------------------
(* Several overrides of one name: C26 *)

\* the places of the descriptor objects named n in the sequence as
Descriptors(as, n) == {i \in 1..Len(as) : Named(as[i], n)}

\* the last place of ps whose descriptor carries the field f (0: none)
LastWith(as, ps, f) ==
  LET with == {i \in ps : f \in DOMAIN as[i].v}
  IN  IF with = {} THEN 0 ELSE CHOOSE i \in with : \A j \in with : j <= i

\* the fields carried by the descriptors at the places ps
FieldsOf(as, ps) == UNION {DOMAIN as[i].v : i \in ps}

\* the root descriptor of the name n: the last root entry of that name
RootPlaces(n) ==
  LET rp == Descriptors(RootEntries, n)
  IN  {i \in rp : \A j \in rp : j <= i}

\* C26: when several override descriptors of a layout carry one name, the
\* effective set has an entry of that name in which every field carried by
\* one of them has the value of the last override that carries it, and
\* every other field of the root descriptor has the root's value
ClaimC26 ==
  result.kind = "items" =>
    \A li \in 1..Len(layouts) : \A n \in AttributeNames :
       LET cs == CandidatesOf(li)
           cp == Descriptors(cs, n)
           rp == RootPlaces(n)
           m  == effectiveGlobals[li]
       IN  Cardinality(cp) >= 2 =>
             \E k \in 1..Len(m) :
                /\ m[k].key = n
                /\ \A f \in FieldsOf(cs, cp) \cup FieldsOf(RootEntries, rp) :
                      /\ f \in DOMAIN m[k].value.v
                      /\ m[k].value.v[f] =
                           (IF LastWith(cs, cp, f) # 0
                            THEN cs[LastWith(cs, cp, f)].v[f]
                            ELSE RootEntries[LastWith(RootEntries, rp, f)].v[f])

----------------------------------------------------------------------------
(* The sections of the documentation: C27 *)

\* the heading head stands once in doc, followed by the "none" marker
\* exactly when none holds
HeadOnce(doc, head, none) ==
  /\ Cardinality(Places(doc, head)) = 1
  /\ \A i \in Places(doc, head) :
        /\ i < Len(doc)
        /\ (doc[i + 1] = Aucun) <=> none

\* the section of the sequence field f of layout l: heading and marker
\* when the sequence is empty, heading without marker when it has
\* entries, nothing when the field is absent
SequenceSection(doc, l, f, head) ==
  /\ IsArray(Get(l, f)) => HeadOnce(doc, head, Len(Get(l, f).v) = 0)
  /\ Get(l, f).t = "undefined" => Places(doc, head) = {}

\* every heading of hs that stands in doc stands before every one of ls
InOrder(doc, hs, ls) ==
  \A i \in Places(doc, hs) : \A j \in Places(doc, ls) : i < j

\* C27: the documentation of every suggestion has its sections in the
\* order usage, specific attributes, CSS properties, global attributes;
\* the usage section stands iff the layout has a usage text; an empty
\* attributes or properties sequence gives its section with the "none"
\* marker and an absent one no section; the global attributes section
\* stands exactly once, with the "none" marker iff the effective set is
\* empty
ThmC27 ==
  result.kind = "items" =>
    \A li \in 1..Len(result.items) :
       LET doc == result.items[li].documentation
           l   == layouts[li]
       IN  /\ Cardinality(Places(doc, HeadUsage)) =
                (IF Truthy(Get(l, "usage")) THEN 1 ELSE 0)
           /\ SequenceSection(doc, l, "attributes", HeadAttributes)
           /\ SequenceSection(doc, l, "properties", HeadProperties)
           /\ HeadOnce(doc, HeadGlobals, Len(effectiveGlobals[li]) = 0)
           /\ InOrder(doc, HeadUsage, HeadAttributes)
           /\ InOrder(doc, HeadUsage, HeadProperties)
           /\ InOrder(doc, HeadUsage, HeadGlobals)
           /\ InOrder(doc, HeadAttributes, HeadProperties)
           /\ InOrder(doc, HeadAttributes, HeadGlobals)
           /\ InOrder(doc, HeadProperties, HeadGlobals)

\* layout 1 has an empty attributes sequence and one CSS property, layout
\* 2 has neither field: the first documentation has the attributes section
\* with the marker, then the properties, then the globals with the marker;
\* the second has the globals section with the marker only
WitC27 ==
  /\ result.kind = "items"
  /\ Len(result.items) = 2
  /\ Get(layouts[1], "attributes") = JArr(<<>>)
  /\ Get(layouts[1], "properties") = JArr(<<PadDescribed>>)
  /\ Get(layouts[2], "attributes") = Undefined
  /\ result.items[1].documentation =
       <<HeadAttributes, Aucun, NL, NL, HeadProperties, NL, NL>>
       \o <<"-", " ", BACKTICK>> \o sDataPad
       \o <<BACKTICK, " ", EMDASH, " ", "a", " ", "b", NL>>
       \o <<NL, HeadGlobals, Aucun, NL, NL>>
  /\ result.items[2].documentation = <<HeadGlobals, Aucun, NL, NL>>

----------------------------------------------------------------------------
(* One line per entry of the documentation: C28 *)

\* the lines a section of n entries takes when every entry takes one line:
\* the heading and the empty line after it, the entries, the closing
\* empty line; a section without entries is its heading and an empty line
SectionLines(n) == IF n = 0 THEN 2 ELSE 2 + n + 1

\* the lines of the section of the field f of layout l
FieldLines(l, f) ==
  IF IsArray(Get(l, f)) THEN SectionLines(Len(Get(l, f).v))
  ELSE IF f = "attributes" /\ Get(l, f).t = "string" /\ Truthy(Get(l, f))
  THEN 2 ELSE 0

\* C28: every schema text is collapsed before it enters the documentation,
\* so every rendered entry takes exactly one line: the documentation of a
\* suggestion has the line breaks of its headings and one line break per
\* entry, whatever line breaks the schema texts contain
ClaimC28 ==
  result.kind = "items" =>
    \A li \in 1..Len(result.items) :
       LET doc == result.items[li].documentation
           l   == layouts[li]
       IN  Cardinality(Places(doc, NL)) =
             (IF Truthy(Get(l, "usage")) THEN 2 ELSE 0)
             + FieldLines(l, "attributes")
             + FieldLines(l, "properties")
             + SectionLines(Len(effectiveGlobals[li]))

----------------------------------------------------------------------------
(* The watcher's test implies the provider's prefix gate: C29 *)

\* C29: whenever the last notification issued a reopen request, the
\* listener read a cursor and the prefix pattern of provideCompletionItems
\* matches the line text up to that cursor
ThmC29 ==
  reopenRequests > 0 =>
    /\ selectionActive # NoCursor
    /\ DataMatch(WatchedPrefix).matched

\* a reopen request after data- was completed: the provider's pattern
\* matches the same line text, with the prefix data-
WitC29 ==
  /\ reopenRequests > 0
  /\ selectionActive # NoCursor
  /\ DataDashAtEnd(WatchedPrefix)
  /\ DataMatch(WatchedPrefix).matched
  /\ DataMatch(WatchedPrefix).group1 = Data \o <<"-">>

----------------------------------------------------------------------------
(* Keys and order of the effective global set: C30 *)

\* the name an entry brings into the effective set: the name of a named
\* object, the string form of any other entry
CarriedName(a) ==
  IF IsObjectLike(a) /\ Truthy(Get(a, "name"))
  THEN Get(a, "name") ELSE JStr(ToStr(a))

\* the names of the root entries that are named objects, in root order
RECURSIVE RootNames(_, _)
RootNames(as, n) ==
  IF n = 0 THEN <<>>
  ELSE IF IsObjectLike(as[n]) /\ Truthy(Get(as[n], "name"))
       THEN Append(RootNames(as, n - 1), CarriedName(as[n]))
       ELSE RootNames(as, n - 1)

\* the names of the override entries that are not falsy, in their order
RECURSIVE OverrideNames(_, _)
OverrideNames(as, n) ==
  IF n = 0 THEN <<>>
  ELSE IF Truthy(as[n])
       THEN Append(OverrideNames(as, n - 1), CarriedName(as[n]))
       ELSE OverrideNames(as, n - 1)

\* the names of ns, each at the place of its first occurrence
RECURSIVE FirstOccurrences(_, _)
FirstOccurrences(ns, n) ==
  IF n = 0 THEN <<>>
  ELSE IF \E j \in 1..(n - 1) : ns[j] = ns[n]
       THEN FirstOccurrences(ns, n - 1)
       ELSE Append(FirstOccurrences(ns, n - 1), ns[n])

\* C30: in the effective global set of every layout each key is the name
\* field of its descriptor and is not empty, no name stands twice, and the
\* keys are the root names in root order followed by the names only the
\* layout brings, each at the place where it first came in
ClaimC30 ==
  result.kind = "items" =>
    \A li \in 1..Len(layouts) :
       LET m  == effectiveGlobals[li]
           ns == RootNames(RootEntries, Len(RootEntries))
                 \o OverrideNames(CandidatesOf(li), Len(CandidatesOf(li)))
       IN  /\ \A k \in 1..Len(m) :
                 /\ Get(m[k].value, "name") = m[k].key
                 /\ ToStr(m[k].key) # <<>>
           /\ \A j, k \in 1..Len(m) : j # k => m[j].key # m[k].key
           /\ [k \in 1..Len(m) |-> m[k].key] = FirstOccurrences(ns, Len(ns))


====
